---- MODULE Spec2Model ----
(***************************************************************************)
(* A model of dfp/deploy.py: the raster post-processing pipeline that      *)
(* turns the two decoded label maps of a floor plan (room types, and       *)
(* boundaries) into one composite image.                                   *)
(*                                                                         *)
(* A raster is a function from pixels <<y, x>> to naturals; its DOMAIN is  *)
(* its shape.  The helpers fill_break_line, flood_fill, refine_room_region *)
(* (dfp.utils.util), convert_one_hot_to_image (dfp.data) and ind2rgb with  *)
(* its colour tables (dfp.utils.rgb_ind_convertor) are imported by         *)
(* deploy.py from files that are not part of src/; they are modelled from  *)
(* sections 4.1 - 4.5 of the specification.                                *)
(***************************************************************************)
EXTENDS Integers, Sequences, FiniteSets, TLC

VARIABLES
    pc,        \* position of the driver: see TypeOK
    config,    \* argparse.Namespace: loadmethod, postprocess, colorize
    model,     \* the loaded network object (the attributes predict touches)
    idx,       \* number of images main's loop has finished
    shp,       \* shape <<height, width>> of the current image
    rm_ind,    \* decoded room map r of the current call
    bd_ind,    \* decoded boundary map cw of the current call
    pp,        \* the post_process calls of the current image (none or one),
               \* each with its locals
    handed,    \* the two maps handed to the compositor by run_on_one
    result,    \* value returned by run_on_one
    mask,      \* SpecRepair: the mask Boundary Repair is applied to
    applied    \* SpecRepair: the successive results of fill_break_line

vars == <<pc, config, model, idx, shp, rm_ind, bd_ind, pp, handed, result,
          mask, applied>>

(***************************************************************************)
(* Bounds of the model.                                                    *)
(***************************************************************************)
MaxRoom == 2        \* room labels are 0 .. MaxRoom
MaxRoomPix == 4     \* SpecPost: pixels the room head labels non-background
MaxBdPix == 1       \* SpecPost: pixels the boundary head labels non-zero
MainRoomPix == 2    \* Spec: the same two bounds for main's loop
MainBdPix == 1
MaxImages == 2      \* images main's loop processes
NumLayers == 2      \* length of model.rtpups / rtpcv1 / rtpcv2
MaxApply == 2       \* SpecRepair: successive applications of fill_break_line

ShapesMain == {<<3, 3>>}
ShapesPost == {<<3, 3>>, <<2, 5>>}
ShapesRepair == {<<3, 3>>, <<2, 5>>, <<3, 4>>, <<4, 4>>}

RoomLabels == 0..MaxRoom
BoundaryLabels == 0..2

(***************************************************************************)
(* Rasters.                                                                *)
(***************************************************************************)
Pixels(s) == (0..(s[1] - 1)) \X (0..(s[2] - 1))

Abs(n) == IF n < 0 THEN -n ELSE n

\* p and q are 4-connected neighbours
Adjacent4(p, q) == Abs(q[1] - p[1]) + Abs(q[2] - p[2]) = 1

\* p lies on the border of the grid D: a neighbouring cell is off the grid
OnBorder(p, D) ==
    \E d \in {<<-1, 0>>, <<1, 0>>, <<0, -1>>, <<0, 1>>} :
        <<p[1] + d[1], p[2] + d[2]>> \notin D

\* A raster is built once, cell by cell, like a numpy array: the comparison
\* makes TLC evaluate the function constructor f here instead of at every
\* later application f[p].
Eager(f) == IF f = <<>> THEN f ELSE f

\* numpy:  (a > 0).astype(np.uint8)
Binarize(a) == Eager([p \in DOMAIN a |-> IF a[p] > 0 THEN 1 ELSE 0])

\* the cells reachable from `reached` by 4-connected steps through `open`
RECURSIVE Flood(_, _)
Flood(reached, open) ==
    LET more == {q \in open \ reached : \E p \in reached : Adjacent4(p, q)}
    IN  IF more = {} THEN reached ELSE Flood(reached \cup more, open)

(***************************************************************************)
(* Boundary Repair (spec 4.2): a morphological closing, dilation followed  *)
(* by erosion, with a square structuring neighbourhood of radius Radius.   *)
(* A label map is coerced to a binary mask (> 0) first.  Cells off the     *)
(* grid take part in neither the dilation nor the erosion.                 *)
(***************************************************************************)
Radius == 1

Offsets == (-Radius..Radius) \X (-Radius..Radius)

Dilate(b) ==
    LET D == DOMAIN b
    IN  Eager([p \in D |->
            IF \E d \in Offsets :
                  LET q == <<p[1] + d[1], p[2] + d[2]>>
                  IN  q \in D /\ b[q] = 1
            THEN 1 ELSE 0])

Erode(b) ==
    LET D == DOMAIN b
    IN  Eager([p \in D |->
            IF \A d \in Offsets :
                  LET q == <<p[1] + d[1], p[2] + d[2]>>
                  IN  q \in D => b[q] = 1
            THEN 1 ELSE 0])

\* mutant: the erosion that undoes the dilation is missing
fill_break_line_dilate_only(m) == Dilate(Binarize(m))

\* mutant: erosion and dilation in the wrong order (an opening)
fill_break_line_open(m) == Dilate(Erode(Binarize(m)))

fill_break_line(m) == Erode(Dilate(Binarize(m)))

(***************************************************************************)
(* Mask Fusion & Hole Fill (spec 4.3): flood the unset cells from every    *)
(* border cell; an unset cell the flood does not reach is an enclosed hole *)
(* and is set to h_max.                                                    *)
(***************************************************************************)
h_max == 255

flood_fill(a) ==
    LET D        == DOMAIN a
        unset    == {p \in D : a[p] = 0}
        seeds    == {p \in unset : OnBorder(p, D)}
        exterior == Flood(seeds, unset)
    IN  Eager([p \in D |->
                IF p \in unset /\ p \notin exterior THEN h_max ELSE a[p]])

(***************************************************************************)
(* Region Refinement (spec 4.4): every 4-connected component of cells that *)
(* are not barrier cells takes the most frequent non-zero room label of    *)
(* its members, the lowest label winning a tie; a component with no        *)
(* labelled member stays 0, and barrier cells belong to no component.      *)
(***************************************************************************)
MostFrequentLabel(C, rm) ==
    LET present  == {rm[q] : q \in C} \ {0}
        Count(l) == Cardinality({q \in C : rm[q] = l})
    IN  IF present = {} THEN 0
        ELSE CHOOSE l \in present :
                \A k \in present :
                    \/ Count(l) > Count(k)
                    \/ Count(l) = Count(k) /\ l <= k

refine_room_region(cw_mask, rm) ==
    LET D    == DOMAIN rm
        free == {p \in D : cw_mask[p] = 0}
    IN  Eager([p \in D |->
                IF p \in free THEN MostFrequentLabel(Flood({p}, free), rm)
                ELSE 0])

(***************************************************************************)
(* post_process, deploy.py lines 111 - 137.                                *)
(***************************************************************************)
\* line 115
hard_c(bd) == Binarize(bd)

\* lines 117 - 118
rm_mask(rm) == Eager([p \in DOMAIN rm |-> IF rm[p] > 0 THEN 1 ELSE 0])

\* lines 120 - 123; np.reshape to shp needs as many cells as shp has
cw_mask(bd, s) ==
    LET closed == fill_break_line(hard_c(bd))
    IN  Eager([p \in Pixels(s) |-> closed[p]])

\* mutant: the threshold of line 125 off by one
fuse_threshold_gt(a) ==
    Eager([p \in DOMAIN a |-> IF a[p] > 1 THEN 255 ELSE a[p]])

\* line 125:  fuse_mask[fuse_mask >= 1] = 255
fuse_threshold(a) ==
    Eager([p \in DOMAIN a |-> IF a[p] >= 1 THEN 255 ELSE a[p]])

\* mutant: line 129 dropped, the mask stays 0 / 255
fuse_mask_undivided(cw, rmm) ==
    flood_fill(fuse_threshold(Eager([p \in DOMAIN cw |-> cw[p] + rmm[p]])))

\* lines 124 - 129
fuse_mask(cw, rmm) ==
    LET summed == Eager([p \in DOMAIN cw |-> cw[p] + rmm[p]])
        filled == flood_fill(fuse_threshold(summed))
    IN  Eager([p \in DOMAIN filled |-> filled[p] \div 255])

\* mutant: the footprint is not applied
new_rm_ind_unmasked(cw, fuse, rm) == refine_room_region(cw, rm)

\* mutant: the raw room map is masked instead of the refined one
new_rm_ind_unrefined(cw, fuse, rm) ==
    Eager([p \in DOMAIN rm |-> fuse[p] * rm[p]])

\* lines 132 - 135
new_rm_ind(cw, fuse, rm) ==
    LET refined == refine_room_region(cw, rm)
    IN  Eager([p \in DOMAIN rm |-> fuse[p] * refined[p]])

\* line 136
new_bd_ind(bd) == fill_break_line(bd)

\* the locals of one call; the return value is <<new_rm_ind, new_bd_ind>>
post_process(rm, bd, s) ==
    LET cw   == cw_mask(bd, s)
        fuse == fuse_mask(cw, rm_mask(rm))
    IN  [hard_c     |-> hard_c(bd),
         cw_mask    |-> cw,
         fuse_mask  |-> fuse,
         new_rm_ind |-> new_rm_ind(cw, fuse, rm),
         new_bd_ind |-> new_bd_ind(bd)]

(***************************************************************************)
(* Label Decoder (spec 4.1): the index of the highest score of every cell, *)
(* the first one when several are highest.  Channels are numbered from 1   *)
(* in a score vector, labels from 0.                                       *)
(***************************************************************************)
ArgMax(v) ==
    CHOOSE i \in 1..Len(v) :
        /\ \A j \in 1..Len(v) : v[j] <= v[i]
        /\ \A j \in 1..(i - 1) : v[j] < v[i]

convert_one_hot_to_image(logits) ==
    Eager([p \in DOMAIN logits |-> ArgMax(logits[p]) - 1])

\* the score tensor of a network that is sure of label ind[p] at every cell
OneHot(ind, channels) ==
    Eager([p \in DOMAIN ind |->
            [c \in 1..channels |-> IF c = ind[p] + 1 THEN 1 ELSE 0]])

(***************************************************************************)
(* Colorizer (spec 4.5): each label is translated through a table that is  *)
(* total over the labels in use and maps label 0 to black.  The other      *)
(* entries stand for the distinct colours of dfp.utils.rgb_ind_convertor.  *)
(***************************************************************************)
Black == <<0, 0, 0>>

floorplan_fuse_map ==
    [l \in 0..10 |->
        CASE l = 0  -> Black
          [] l = 1  -> <<192, 192, 224>>
          [] l = 2  -> <<192, 255, 255>>
          [] l = 3  -> <<224, 255, 192>>
          [] l = 4  -> <<255, 224, 128>>
          [] l = 5  -> <<255, 160, 96>>
          [] l = 6  -> <<255, 224, 224>>
          [] l = 7  -> <<224, 224, 224>>
          [] l = 8  -> <<224, 224, 128>>
          [] l = 9  -> <<255, 60, 128>>
          [] l = 10 -> <<255, 255, 255>>]

floorplan_boundary_map ==
    [l \in 0..2 |->
        CASE l = 0 -> Black
          [] l = 1 -> <<255, 60, 128>>
          [] l = 2 -> <<255, 255, 255>>]

ind2rgb(ind, color_map) == Eager([p \in DOMAIN ind |-> color_map[ind[p]]])

\* numpy:  a + b, cell by cell and channel by channel
AddRGB(a, b) ==
    Eager([p \in DOMAIN a |->
            <<a[p][1] + b[p][1], a[p][2] + b[p][2], a[p][3] + b[p][3]>>])

\* lines 140 - 144
colorize(r, cw) ==
    <<ind2rgb(r, floorplan_fuse_map), ind2rgb(cw, floorplan_boundary_map)>>

(***************************************************************************)
(* run_on_one, deploy.py lines 147 - 185, from the decoded maps on.        *)
(***************************************************************************)
\* lines 168 - 169 and 178 - 179, one assignment after the other
sentinels(cw) ==
    LET first == Eager([p \in DOMAIN cw |-> IF cw[p] = 1 THEN 9 ELSE cw[p]])
    IN  Eager([p \in DOMAIN cw |-> IF first[p] = 2 THEN 10 ELSE first[p]])

\* mutant: the room map is not zeroed under the boundary
zero_under_boundary_missing(r, cw) == r

\* lines 170 and 180:  r[cw != 0] = 0
zero_under_boundary(r, cw) ==
    Eager([p \in DOMAIN r |-> IF cw[p] # 0 THEN 0 ELSE r[p]])

\* numpy:  r + cw
AddMaps(a, b) == Eager([p \in DOMAIN a |-> a[p] + b[p]])

\* lines 168 - 171 and 178 - 181: what is summed, and the sum
composite(r, cw) ==
    LET bd   == sentinels(cw)
        room == zero_under_boundary(r, bd)
    IN  [r |-> r, cw |-> cw, room_part |-> room, bd_part |-> bd,
         result |-> AddMaps(room, bd)]

\* lines 173 - 174 and 182 - 183
colorized(r, cw) ==
    LET rgb == colorize(r, cw)
    IN  [r |-> r, cw |-> cw, room_part |-> rgb[1], bd_part |-> rgb[2],
         result |-> AddRGB(rgb[1], rgb[2])]

\* mutant: the second branch tests colorize alone, so post_process never
\* runs when colorize is set
run_on_one_elif_colorize(cfg, r, cw, s) ==
    IF ~cfg.colorize /\ ~cfg.postprocess
    THEN [post |-> <<>>, out |-> composite(r, cw)]
    ELSE IF cfg.colorize
    THEN [post |-> <<>>, out |-> colorized(r, cw)]
    ELSE LET post == post_process(r, cw, s)
         IN  [post |-> <<post>>,
              out |-> composite(post.new_rm_ind, post.new_bd_ind)]

\* lines 167 - 185: post holds the locals of post_process when it ran
run_on_one(cfg, r, cw, s) ==
    IF ~cfg.colorize /\ ~cfg.postprocess
    THEN [post |-> <<>>, out |-> composite(r, cw)]
    ELSE IF cfg.colorize /\ ~cfg.postprocess
    THEN [post |-> <<>>, out |-> colorized(r, cw)]
    ELSE LET post == post_process(r, cw, s)
         IN  IF ~cfg.colorize /\ cfg.postprocess
             THEN [post |-> <<post>>,
                   out |-> composite(post.new_rm_ind, post.new_bd_ind)]
             ELSE [post |-> <<post>>,
                   out |-> colorized(post.new_rm_ind, post.new_bd_ind)]

(***************************************************************************)
(* The network object.  init_model (lines 33 - 47) builds a Keras model    *)
(* for loadmethod "log" and "pb" and a TFLite interpreter for "tflite";    *)
(* predict (lines 66 - 108) is the forward pass of the "log" model.        *)
(***************************************************************************)
LoadMethods == {"log", "tflite", "pb"}

Layers == [i \in 1..NumLayers |-> i]

init_model(cfg) ==
    IF cfg.loadmethod = "log"
    THEN [vgg16 |-> TRUE, rtpups |-> Layers, rtpcv1 |-> Layers,
          rtpcv2 |-> Layers, rtpfinal |-> TRUE]
    ELSE [loaded |-> cfg.loadmethod]

\* line 72 reads model.vgg16, line 104 model.rtpfinal: AttributeError if gone
predict_raises(m) == ~m.vgg16 \/ ~m.rtpfinal

RECURSIVE PopAll(_, _)
\* lines 92 - 95: nLays times pop(0) from each of the three lists
PopAll(m, n) ==
    IF n = 0 THEN m
    ELSE PopAll([m EXCEPT !.rtpups = Tail(@), !.rtpcv1 = Tail(@),
                          !.rtpcv2 = Tail(@)], n - 1)

\* the model after predict: lines 78, 91 - 95 and 106
predict_model(m) ==
    [PopAll(m, Len(m.rtpups)) EXCEPT !.vgg16 = FALSE, !.rtpfinal = FALSE]

(***************************************************************************)
(* The decoded maps a network can produce for an image: at most nr cells   *)
(* with a non-zero room label, at most nb with a non-zero boundary label.  *)
(***************************************************************************)
UpTo(D, n) == {S \in SUBSET D : Cardinality(S) <= n}

Paint(D, S, f) == Eager([p \in D |-> IF p \in S THEN f[p] ELSE 0])

Idle == <<>>

(***************************************************************************)
(* SpecRepair: fill_break_line applied, and applied again to its own       *)
(* result.  The inputs are those of its two call sites in post_process:    *)
(* a binary mask (line 122, every mask of the shapes in ShapesRepair) and  *)
(* a boundary label map (line 136, every map of the shapes in ShapesPost). *)
(***************************************************************************)
InitRepair ==
    /\ pc = "repair"
    /\ config = Idle /\ model = Idle /\ idx = 0
    /\ \/ shp \in ShapesRepair /\ mask \in [Pixels(shp) -> 0..1]
       \/ shp \in ShapesPost /\ mask \in [Pixels(shp) -> BoundaryLabels]
    /\ applied = <<>>
    /\ rm_ind = Idle /\ bd_ind = Idle /\ pp = <<>>
    /\ handed = Idle /\ result = Idle

Repair ==
    /\ pc = "repair"
    /\ Len(applied) < MaxApply
    /\ applied' = Append(applied,
                         fill_break_line(IF applied = <<>> THEN mask
                                         ELSE applied[Len(applied)]))
    /\ UNCHANGED <<pc, config, model, idx, shp, rm_ind, bd_ind, pp, handed,
                   result, mask>>

NextRepair == Repair

SpecRepair == InitRepair /\ [][NextRepair]_vars

(***************************************************************************)
(* SpecPost: post_process applied to every pair of decoded maps within the *)
(* bounds MaxRoomPix and MaxBdPix, for the shapes in ShapesPost.           *)
(***************************************************************************)
InitPost ==
    /\ pc = "post"
    /\ config = Idle /\ model = Idle /\ idx = 0
    /\ mask = Idle /\ applied = <<>>
    /\ \E s \in ShapesPost :
         \E R \in UpTo(Pixels(s), MaxRoomPix), B \in UpTo(Pixels(s), MaxBdPix) :
           \E f \in [R -> RoomLabels \ {0}], g \in [B -> BoundaryLabels \ {0}] :
             /\ shp = s
             /\ rm_ind = Paint(Pixels(s), R, f)
             /\ bd_ind = Paint(Pixels(s), B, g)
    /\ pp = <<>> /\ handed = Idle /\ result = Idle

PostProcess ==
    /\ pc = "post"
    /\ pp' = <<post_process(rm_ind, bd_ind, shp)>>
    /\ pc' = "post_done"
    /\ UNCHANGED <<config, model, idx, shp, rm_ind, bd_ind, handed, result,
                   mask, applied>>

NextPost == PostProcess

SpecPost == InitPost /\ [][NextPost]_vars

(***************************************************************************)
(* Spec: main (lines 221 - 247) with its loop over the images.             *)
(***************************************************************************)
Configs ==
    [loadmethod : LoadMethods, postprocess : BOOLEAN, colorize : BOOLEAN]

\* lines 223 - 225
Init ==
    /\ pc = "loop"
    /\ config \in Configs
    /\ model = init_model(config)
    /\ idx = 0
    /\ shp = Idle /\ rm_ind = Idle /\ bd_ind = Idle /\ pp = <<>>
    /\ handed = Idle /\ result = Idle
    /\ mask = Idle /\ applied = <<>>

\* line 237
InitImage ==
    /\ pc = "loop"
    /\ idx < MaxImages
    /\ shp' \in ShapesMain
    /\ pc' = "run"
    /\ UNCHANGED <<config, model, idx, rm_ind, bd_ind, pp, handed, result,
                   mask, applied>>

\* line 238, the call returns
RunOnOne ==
    /\ pc = "run"
    /\ config.loadmethod = "log" => ~predict_raises(model)
    /\ model' = IF config.loadmethod = "log" THEN predict_model(model)
                ELSE model
    /\ \E R \in UpTo(Pixels(shp), MainRoomPix), B \in UpTo(Pixels(shp), MainBdPix) :
         \E f \in [R -> RoomLabels \ {0}], g \in [B -> BoundaryLabels \ {0}] :
           \E r  \in {convert_one_hot_to_image(
                          OneHot(Paint(Pixels(shp), R, f), MaxRoom + 1))},
              cw \in {convert_one_hot_to_image(
                          OneHot(Paint(Pixels(shp), B, g), 3))} :
             \E ret \in {run_on_one(config, r, cw, shp)} :
               /\ rm_ind' = r
               /\ bd_ind' = cw
               /\ pp' = ret.post
               /\ handed' = [r |-> ret.out.r, cw |-> ret.out.cw,
                             room_part |-> ret.out.room_part,
                             bd_part |-> ret.out.bd_part]
               /\ result' = ret.out.result
    /\ pc' = "save"
    /\ UNCHANGED <<config, idx, shp, mask, applied>>

\* line 238, predict raises and nothing in main catches it
RunOnOneRaises ==
    /\ pc = "run"
    /\ config.loadmethod = "log"
    /\ predict_raises(model)
    /\ pc' = "raised"
    /\ UNCHANGED <<config, model, idx, shp, rm_ind, bd_ind, pp, handed,
                   result, mask, applied>>

\* lines 239 - 244; the next iteration rebinds img, shp and result
SaveResult ==
    /\ pc = "save"
    /\ idx' = idx + 1
    /\ pc' = "loop"
    /\ shp' = Idle /\ rm_ind' = Idle /\ bd_ind' = Idle /\ pp' = <<>>
    /\ handed' = Idle /\ result' = Idle
    /\ UNCHANGED <<config, model, mask, applied>>

\* the loop of line 236 ends
Finish ==
    /\ pc = "loop"
    /\ idx = MaxImages
    /\ pc' = "done"
    /\ UNCHANGED <<config, model, idx, shp, rm_ind, bd_ind, pp, handed,
                   result, mask, applied>>

Next == InitImage \/ RunOnOne \/ RunOnOneRaises \/ SaveResult \/ Finish

Spec == Init /\ [][Next]_vars

(***************************************************************************)
(* The claims.                                                             *)
(***************************************************************************)
Returned == pc = "save"

PostDone == pc = "post_done"

\* C1: in the non-colorized composite run_on_one returns, with or without
\* postprocess, every pixel holds either the room label of that pixel (and
\* the boundary map is 0 there) or the boundary sentinel 9 or 10 (and the
\* room contribution is 0 there); no value is a non-zero room label plus a
\* non-zero sentinel.
C1_MutualExclusion ==
    (Returned /\ ~config.colorize) =>
        \A p \in Pixels(shp) :
            \/ handed.cw[p] = 0 /\ result[p] = handed.r[p]
            \/ /\ handed.cw[p] # 0
               /\ result[p] \in {9, 10}
               /\ handed.room_part[p] = 0

\* a decoded pixel with a room label and a boundary label, no postprocess:
\* line 170 zeroed the room label and the pixel holds the sentinel
C1_Witness ==
    /\ Returned /\ ~config.colorize /\ ~config.postprocess
    /\ \E p \in Pixels(shp) :
          rm_ind[p] # 0 /\ bd_ind[p] = 2 /\ result[p] = 10

\* C2: in every final composite, the colorized ones included, the room
\* contribution is zero (black) wherever the boundary map handed to the
\* compositor is non-zero.
C2_BoundaryPrecedence ==
    Returned =>
        \A p \in Pixels(shp) :
            handed.cw[p] # 0 =>
                handed.room_part[p] = (IF config.colorize THEN Black ELSE 0)

\* C3: with postprocess, every pixel outside the full-footprint mask is zero
\* in both maps post_process returns.
C3_Footprint ==
    PostDone =>
        \A p \in Pixels(shp) :
            pp[1].fuse_mask[p] = 0 =>
                pp[1].new_rm_ind[p] = 0 /\ pp[1].new_bd_ind[p] = 0

\* refinement gave a room label to a pixel outside the footprint, and the
\* pixel is zero in the map returned
C3_Witness ==
    /\ PostDone
    /\ \E p \in Pixels(shp) :
          /\ pp[1].fuse_mask[p] = 0
          /\ refine_room_region(pp[1].cw_mask, rm_ind)[p] # 0
          /\ pp[1].new_rm_ind[p] = 0

\* C4: run_on_one carries no state from one image to the next: the model is
\* what init_model loaded, whatever images were processed before.
C4_NoCarriedState == model = init_model(config)

\* C5: run_on_one is a dispatch over the two flags: post_process runs exactly
\* when postprocess is set, the compositor gets the refined maps then and the
\* raw decoded maps otherwise, and the result is the sum of the two colour
\* translations when colorize is set and otherwise the label composite
\* (boundary 1 -> 9, 2 -> 10, room label elsewhere).
C5_Dispatch ==
    Returned =>
        /\ Len(pp) = (IF config.postprocess THEN 1 ELSE 0)
        /\ config.postprocess =>
              handed.r = pp[1].new_rm_ind /\ handed.cw = pp[1].new_bd_ind
        /\ ~config.postprocess =>
              handed.r = rm_ind /\ handed.cw = bd_ind
        /\ \A p \in Pixels(shp) :
              LET room == floorplan_fuse_map[handed.r[p]]
                  bd   == floorplan_boundary_map[handed.cw[p]]
              IN  result[p] =
                    IF config.colorize
                    THEN <<room[1] + bd[1], room[2] + bd[2], room[3] + bd[3]>>
                    ELSE CASE handed.cw[p] = 1 -> 9
                           [] handed.cw[p] = 2 -> 10
                           [] OTHER -> handed.r[p]

\* both flags set: the colours are those of the refined maps, which differ
\* from the decoded ones
C5_Witness ==
    /\ Returned /\ config.colorize /\ config.postprocess
    /\ handed.r # rm_ind
    /\ handed.cw # bd_ind
    /\ \E p \in Pixels(shp) : result[p] # Black

\* C6: Boundary Repair is monotone: the output has the dimensions of the
\* input and every pixel set in the input is set in the output, for a binary
\* mask (line 122) and for a boundary label map (line 136).
C6_Monotone ==
    Len(applied) >= 1 =>
        /\ DOMAIN applied[1] = DOMAIN mask
        /\ \A p \in DOMAIN mask : mask[p] > 0 => applied[1][p] > 0

\* a repair that added a pixel and did not fill the whole image
C6_Witness ==
    /\ Len(applied) >= 1
    /\ \E p \in DOMAIN mask : mask[p] = 0 /\ applied[1][p] = 1
    /\ \E p \in DOMAIN mask : applied[1][p] = 0

\* C7: Boundary Repair is idempotent: repairing a repaired mask changes
\* nothing.
C7_Idempotent == Len(applied) >= 2 => applied[2] = applied[1]

\* a mask repaired twice whose first repair added a pixel
C7_Witness ==
    /\ Len(applied) = 2
    /\ \E p \in DOMAIN mask : mask[p] = 0 /\ applied[2][p] = 1
    /\ \E p \in DOMAIN mask : applied[2][p] = 0

\* the non-barrier cells of the footprint
FootprintCells ==
    {p \in Pixels(shp) : pp[1].fuse_mask[p] = 1 /\ pp[1].cw_mask[p] = 0}

\* C8: after refinement and masking, the cells of every 4-connected
\* component of non-barrier cells of the footprint carry one room label.
C8_OneLabelPerRegion ==
    PostDone =>
        \A p \in FootprintCells :
            \A q \in Flood({p}, FootprintCells) :
                pp[1].new_rm_ind[q] = pp[1].new_rm_ind[p]

\* two components of the footprint that end with different labels, one of
\* them decoded with two labels
C8_Witness ==
    /\ PostDone
    /\ \E p, q \in FootprintCells :
          /\ Adjacent4(p, q)
          /\ rm_ind[p] # 0 /\ rm_ind[q] # 0 /\ rm_ind[p] # rm_ind[q]
    /\ \E p, q \in FootprintCells :
          /\ pp[1].new_rm_ind[p] # 0 /\ pp[1].new_rm_ind[q] # 0
          /\ pp[1].new_rm_ind[p] # pp[1].new_rm_ind[q]

\* C9: every non-zero label of the refined room map occurs somewhere in the
\* room map before refinement.
C9_NoNewLabel ==
    PostDone =>
        \A p \in Pixels(shp) :
            pp[1].new_rm_ind[p] # 0 =>
                \E q \in Pixels(shp) : rm_ind[q] = pp[1].new_rm_ind[p]

\* refinement changed a pixel's non-zero label to another one
C9_Witness ==
    /\ PostDone
    /\ \E p \in Pixels(shp) :
          /\ rm_ind[p] # 0
          /\ pp[1].new_rm_ind[p] # 0
          /\ pp[1].new_rm_ind[p] # rm_ind[p]

\* set in the union of room label > 0 and the repaired boundary mask
InUnion(p) == rm_ind[p] > 0 \/ pp[1].cw_mask[p] = 1

\* a 4-connected path of unset cells leads from p to a border cell
ReachesBorder(p) ==
    \E b \in Flood({p}, {q \in Pixels(shp) : ~InUnion(q)}) :
        OnBorder(b, Pixels(shp))

\* C10: the footprint mask is 0 / 1, and a cell is 1 exactly when it is set
\* in the union or is an unset cell with no 4-connected path of unset cells
\* to the image border.
C10_HoleFill ==
    PostDone =>
        \A p \in Pixels(shp) :
            /\ pp[1].fuse_mask[p] \in {0, 1}
            /\ pp[1].fuse_mask[p] = 1 <=> (InUnion(p) \/ ~ReachesBorder(p))

\* a single unlabeled pixel enclosed by four labeled room pixels is
\* interior, while an unset pixel in a corner is not
C10_Witness ==
    /\ PostDone
    /\ \E p \in Pixels(shp) :
          /\ ~InUnion(p)
          /\ \A d \in {<<-1, 0>>, <<1, 0>>, <<0, -1>>, <<0, 1>>} :
                LET q == <<p[1] + d[1], p[2] + d[2]>>
                IN  q \in Pixels(shp) /\ rm_ind[q] > 0
          /\ pp[1].fuse_mask[p] = 1
    /\ \E p \in Pixels(shp) : ~InUnion(p) /\ pp[1].fuse_mask[p] = 0

====
